---------------------------- MODULE Spec2Model ----------------------------
(***************************************************************************)
(* A model of the Veritas key/value client (src/client.go): the client     *)
(* facade, the request builder, the signer, Request.Execute and the        *)
(* response decoder.                                                       *)
(*                                                                         *)
(* Go strings that the program concatenates, measures or hashes (method,   *)
(* endpoint, body, secret, ...) are sequences of one-character strings.    *)
(* JSON values decoded from a response body are tagged records.            *)
(***************************************************************************)
EXTENDS Integers, Sequences, FiniteSets, TLC

VARIABLES
    client,   \* the VeritasClient struct
    pc,       \* where the caller is: "idle", "built", "read", "returned", "panicked"
    op,       \* the facade operation in progress and its arguments
    payload,  \* the RequestPayload the facade marshalled (Nil when none)
    req,      \* the Request the facade built
    wire,     \* the http.Request handed to client.Do (Nil when none)
    sends,    \* how many times client.Do ran in this call
    rawBody,  \* the body read from the HTTP response
    ret,      \* what the facade returned: [res, err]
    acc,      \* the last typed accessor called on the returned Response
    nset,     \* configuration setter calls made so far
    heap,     \* the values allocated by concurrent callers, by address
    calls,    \* the call of each concurrent caller
    writing,  \* the version a SetVersion in progress is storing (Nil when none)
    str,      \* the argument of a call of encodeUri
    encoded,  \* what the call returned, [text |-> ...] (Nil before it)
    setRet    \* the last call of SetLogLevel: its argument, the level before
              \* it and what it returned (Nil before any call)

\* The variables of concurrent callers, and those of a call of encodeUri.
raceVars == <<heap, calls, writing>>
encVars == <<str, encoded>>

vars == <<client, pc, op, payload, req, wire, sends, rawBody, ret, acc, nset,
          heap, calls, writing, str, encoded, setRet>>

---------------------------------------------------------------------------
(* Bounds *)

\* Most top-level keys in a keymap passed to a bulk operation.
MaxKeys == 2

\* Most configuration setter calls in one behaviour.
MaxSetterCalls == 1

\* Longest string handed to encodeUri on its own.
MaxStrLen == 3

---------------------------------------------------------------------------
(* Program constants, src/client.go:25-47 *)

LOG_TRACE == 3
LOG_DEBUG == 2
LOG_WARN == 1
LOG_ERROR == 0

RESPONSETYPE_FETCH_SINGLE == 1
RESPONSETYPE_FETCH_MULTI == 2
RESPONSETYPE_MUTATION == 3

VALTYPE_DATA == 1
VALTYPE_COUNT == 2

API_VERSION == <<"v", "1">>

API_ENDPOINT ==
    <<"h", "t", "t", "p", ":", "/", "/", "a", "p", "i", ".", "f", "l", "x",
      "v", "e", "r", "i", "t", "a", "s", ".", "c", "o", "m">>

REGION_ANY == <<"a", "n", "y">>

---------------------------------------------------------------------------
(* Strings *)

\* The nil pointer / nil interface / nil error.
Nil == [nil |-> TRUE]

\* The printable ASCII characters in code order, from 32 (space) to 126
\* (code 96, the grave accent, is spelled out).
Ascii ==
    <<" ", "!", "\"", "#", "$", "%", "&", "'", "(", ")", "*", "+", ",", "-",
      ".", "/", "0", "1", "2", "3", "4", "5", "6", "7", "8", "9", ":", ";",
      "<", "=", ">", "?", "@", "A", "B", "C", "D", "E", "F", "G", "H", "I",
      "J", "K", "L", "M", "N", "O", "P", "Q", "R", "S", "T", "U", "V", "W",
      "X", "Y", "Z", "[", "\\", "]", "^", "_", "grave", "a", "b", "c", "d", "e",
      "f", "g", "h", "i", "j", "k", "l", "m", "n", "o", "p", "q", "r", "s",
      "t", "u", "v", "w", "x", "y", "z", "{", "|", "}", "~">>

\* The byte values of the printable characters.
AsciiCode ==
    [c \in {Ascii[i] : i \in 1..Len(Ascii)} |->
       31 + (CHOOSE i \in 1..Len(Ascii) : Ascii[i] = c)]

\* The byte value of a character; the tab stands for the control characters.
CharCode(c) == IF c = "\t" THEN 9 ELSE AsciiCode[c]

\* Byte-wise lexicographic order of Go strings, as sort.Strings orders them.
RECURSIVE StrLess(_, _)
StrLess(a, b) ==
    IF b = <<>> THEN FALSE
    ELSE IF a = <<>> THEN TRUE
    ELSE IF CharCode(Head(a)) # CharCode(Head(b))
         THEN CharCode(Head(a)) < CharCode(Head(b))
         ELSE StrLess(Tail(a), Tail(b))

\* The strings of a set in ascending order.
RECURSIVE SortStrings(_)
SortStrings(S) ==
    IF S = {} THEN <<>>
    ELSE LET m == CHOOSE x \in S : \A y \in S \ {x} : StrLess(x, y)
         IN  <<m>> \o SortStrings(S \ {m})

\* Concatenation of a sequence of strings (by halves, to keep the
\* evaluation shallow).
RECURSIVE Concat(_)
Concat(ss) ==
    IF Len(ss) = 0 THEN <<>>
    ELSE IF Len(ss) = 1 THEN ss[1]
    ELSE LET h == Len(ss) \div 2
         IN  Concat(SubSeq(ss, 1, h)) \o Concat(SubSeq(ss, h + 1, Len(ss)))

\* The strings of a sequence with a separator between them.
Join(ss, sep) == Concat([i \in 1..Len(ss) |-> IF i = 1 THEN ss[i] ELSE sep \o ss[i]])

Digits == <<"0", "1", "2", "3", "4", "5", "6", "7", "8", "9">>

\* fmt.Sprintf("%d", n)
RECURSIVE FmtD(_)
FmtD(n) ==
    IF n < 0 THEN <<"-">> \o FmtD(0 - n)
    ELSE IF n < 10 THEN <<Digits[n + 1]>>
    ELSE FmtD(n \div 10) \o <<Digits[(n % 10) + 1]>>

\* strings.ToUpper on one character.
UpperChar(c) ==
    IF CharCode(c) >= 97 /\ CharCode(c) <= 122 THEN Ascii[CharCode(c) - 63]
    ELSE c

\* strings.ToUpper
ToUpper(s) == [i \in 1..Len(s) |-> UpperChar(s[i])]

---------------------------------------------------------------------------
(* Payload model, src/client.go:514-540, and encoding/json's text for it *)

Quote == <<"\"">>

\* How encoding/json writes one character of a string.
jsonEscapeChar(c) ==
    CASE c = "\"" -> <<"\\", "\"">>
      [] c = "\\" -> <<"\\", "\\">>
      [] c = "\t" -> <<"\\", "t">>
      [] c = "<"  -> <<"\\", "u", "0", "0", "3", "c">>
      [] c = ">"  -> <<"\\", "u", "0", "0", "3", "e">>
      [] c = "&"  -> <<"\\", "u", "0", "0", "2", "6">>
      [] OTHER    -> <<c>>

\* json.Marshal of a Go string.
MarshalString(s) ==
    Quote \o Concat([i \in 1..Len(s) |-> jsonEscapeChar(s[i])]) \o Quote

\* A value of PayloadObjectsKeyValues.Values: a string or an integer.
StrVal(s) == [s |-> s]
IntVal(n) == [n |-> n]

\* json.Marshal of one interface{} value of a Values map.
MarshalScalar(v) ==
    IF "s" \in DOMAIN v THEN MarshalString(v.s) ELSE FmtD(v.n)

\* json.Marshal of a map[string]interface{}: the keys in sorted order.
MarshalValueMap(m) ==
    LET ks == SortStrings(DOMAIN m)
    IN  <<"{">>
        \o Join([i \in 1..Len(ks) |->
                   MarshalString(ks[i]) \o <<":">> \o MarshalScalar(m[ks[i]])],
                <<",">>)
        \o <<"}">>

\* json.Marshal of a []string that is not nil.
MarshalStringList(l) ==
    <<"[">> \o Join([i \in 1..Len(l) |-> MarshalString(l[i])], <<",">>) \o <<"]">>

NewPayloadObjectsKeyValues ==
    [kind |-> "KeyValues", Key |-> <<>>, DbOverride |-> <<>>,
     TableOverride |-> <<>>, Values |-> <<>>]

NewPayloadObjectsKeys ==
    [kind |-> "Keys", Key |-> <<>>, DbOverride |-> <<>>,
     TableOverride |-> <<>>, Values |-> <<>>]

NewRequestPayload ==
    [DefaultDb |-> <<>>, DefaultTable |-> <<>>, Objects |-> <<>>]

\* json.Marshal of a PayloadObjectsKeyValues or PayloadObjectsKeys: the
\* overrides carry omitempty.
MarshalObject(o) ==
    <<"{">> \o Quote \o <<"k">> \o Quote \o <<":">> \o MarshalString(o.Key)
    \o (IF o.DbOverride = <<>> THEN <<>>
        ELSE <<",">> \o Quote
             \o <<"d", "b", "_", "o", "v", "e", "r", "r", "i", "d", "e">>
             \o Quote \o <<":">> \o MarshalString(o.DbOverride))
    \o (IF o.TableOverride = <<>> THEN <<>>
        ELSE <<",">> \o Quote
             \o <<"t", "a", "b", "l", "e", "_", "o", "v", "e", "r", "r", "i", "d", "e">>
             \o Quote \o <<":">> \o MarshalString(o.TableOverride))
    \o <<",">> \o Quote \o <<"v">> \o Quote \o <<":">>
    \o (IF o.kind = "KeyValues" THEN MarshalValueMap(o.Values)
        ELSE MarshalStringList(o.Values))
    \o <<"}">>

\* json.Marshal of a RequestPayload; Objects is a nil slice until the first
\* append, and a nil slice is written as null.
MarshalPayload(p) ==
    <<"{">> \o Quote \o <<"d", "e", "f", "a", "u", "l", "t", "_", "d", "b">>
    \o Quote \o <<":">> \o MarshalString(p.DefaultDb)
    \o <<",">> \o Quote
    \o <<"d", "e", "f", "a", "u", "l", "t", "_", "t", "a", "b", "l", "e">>
    \o Quote \o <<":">> \o MarshalString(p.DefaultTable)
    \o <<",">> \o Quote \o <<"o", "b", "j", "e", "c", "t", "s">> \o Quote \o <<":">>
    \o (IF p.Objects = <<>> THEN <<"n", "u", "l", "l">>
        ELSE <<"[">>
             \o Join([i \in 1..Len(p.Objects) |-> MarshalObject(p.Objects[i])],
                     <<",">>)
             \o <<"]">>)
    \o <<"}">>

---------------------------------------------------------------------------
(* encodeUri, src/client.go:281-288 *)

HexDigits ==
    <<"0", "1", "2", "3", "4", "5", "6", "7", "8", "9", "A", "B", "C", "D", "E", "F">>

\* url.QueryEscape on one character.
queryEscapeChar(c) ==
    LET n == CharCode(c)
    IN  IF \/ (n >= 48 /\ n <= 57) \/ (n >= 65 /\ n <= 90) \/ (n >= 97 /\ n <= 122)
           \/ c \in {"-", "_", ".", "~"}
        THEN <<c>>
        ELSE IF c = " " THEN <<"+">>
        ELSE <<"%", HexDigits[(n \div 16) + 1], HexDigits[(n % 16) + 1]>>

\* url.QueryEscape
QueryEscape(s) == Concat([i \in 1..Len(s) |-> queryEscapeChar(s[i])])

\* Whether old occurs in s at position i.
MatchAt(s, i, old) ==
    i >= 1 /\ i + Len(old) - 1 <= Len(s) /\ SubSeq(s, i, i + Len(old) - 1) = old

\* strings.Replace(s, old, new, -1) for an old that cannot overlap itself
\* (its first character occurs in it once): every occurrence is replaced.
ReplaceAll(s, old, new) ==
    Concat([i \in 1..Len(s) |->
              IF MatchAt(s, i, old) THEN new
              ELSE IF \E j \in 1..(Len(old) - 1) : MatchAt(s, i - j, old) THEN <<>>
              ELSE <<s[i]>>])

\* encodeUri with the second replacement left out.
encodeUri_ColonEscaped(s) == ReplaceAll(QueryEscape(s), <<"%", "2", "C">>, <<",">>)

encodeUri(s) ==
    ReplaceAll(ReplaceAll(QueryEscape(s), <<"%", "2", "C">>, <<",">>),
               <<"%", "3", "A">>, <<":">>)

---------------------------------------------------------------------------
(* The client and its setters, src/client.go:51-87 *)

NewClient(customerId, applicationId, secureToken) ==
    [customerId    |-> customerId,
     applicationId |-> applicationId,
     secureToken   |-> secureToken,
     logLevel      |-> LOG_WARN,
     database      |-> <<>>,
     version       |-> API_VERSION,
     endpoint      |-> API_ENDPOINT,
     region        |-> REGION_ANY]

---------------------------------------------------------------------------
(* Request builder and signer, src/client.go:364-394 and 465-512 *)

newRequestOpts == [encryption |-> TRUE, async |-> FALSE, redundancy |-> 1]

newRequest(method, endpoint, valType, respType) ==
    [endpoint     |-> endpoint,
     method       |-> ToUpper(method),
     body         |-> <<>>,
     opts         |-> newRequestOpts,
     valType      |-> valType,
     responseType |-> respType,
     mutations    |-> 0]

\* Request.getUrl reads the version of the client the request points to.
getUrl(c, r) == <<"/">> \o c.version \o <<"/">> \o r.endpoint

\* The hex SHA-1 digest of a string: 40 hex characters that stand for the
\* string hashed (the digest is taken to be free of collisions).
Sha1Hex(s) == [sha1 |-> s]

\* The hex SHA-512 digest of what was written to the hasher: a string
\* followed by a hex SHA-1 digest.
Sha512Hex(written, sha1Body) == [sha512 |-> written, tail |-> sha1Body]

\* signRequest with the token written before the url.
signRequest_TokenFirst(c, r) ==
    Sha512Hex(r.method \o c.secureToken \o getUrl(c, r) \o FmtD(Len(r.body)),
              Sha1Hex(r.body))

\* Request.signRequest: method, url, token and body length are written to the
\* hasher in this order, then the hex SHA-1 digest of the body.
signRequest(c, r) ==
    Sha512Hex(r.method \o getUrl(c, r) \o c.secureToken \o FmtD(Len(r.body)),
              Sha1Hex(r.body))

---------------------------------------------------------------------------
(* Client facade: what each operation builds, src/client.go:93-362 *)

S_GET == <<"G", "E", "T">>
S_PUT == <<"P", "U", "T">>
S_DELETE == <<"D", "E", "L", "E", "T", "E">>
S_data == <<"d", "a", "t", "a">>
S_count == <<"c", "o", "u", "n", "t">>
S_dataMulti == <<"d", "a", "t", "a", "-", "m", "u", "l", "t", "i">>
S_countMulti == <<"c", "o", "u", "n", "t", "-", "m", "u", "l", "t", "i">>

\* The keymap loop of the bulk operations over []string values: one
\* PayloadObjectsKeys per key, in the order the range statement visits the
\* keys, and the number of iterations.
RECURSIVE KeysLoop(_, _, _, _)
KeysLoop(keymap, order, objects, mutationCount) ==
    IF order = <<>> THEN [Objects |-> objects, mutationCount |-> mutationCount]
    ELSE LET k == Head(order)
             object == [NewPayloadObjectsKeys EXCEPT !.Key = k, !.Values = keymap[k]]
         IN  KeysLoop(keymap, Tail(order), Append(objects, object), mutationCount + 1)

\* KeyValuesLoop counting the subkey entries instead of the keys.
RECURSIVE KeyValuesLoop_CountsSubkeys(_, _, _, _)
KeyValuesLoop_CountsSubkeys(keymap, order, objects, mutationCount) ==
    IF order = <<>> THEN [Objects |-> objects, mutationCount |-> mutationCount]
    ELSE LET k == Head(order)
             object == [NewPayloadObjectsKeyValues EXCEPT !.Key = k, !.Values = keymap[k]]
         IN  KeyValuesLoop_CountsSubkeys(keymap, Tail(order), Append(objects, object),
                                         mutationCount + Cardinality(DOMAIN keymap[k]))

\* The keymap loop over map values: one PayloadObjectsKeyValues per key.
RECURSIVE KeyValuesLoop(_, _, _, _)
KeyValuesLoop(keymap, order, objects, mutationCount) ==
    IF order = <<>> THEN [Objects |-> objects, mutationCount |-> mutationCount]
    ELSE LET k == Head(order)
             object == [NewPayloadObjectsKeyValues EXCEPT !.Key = k, !.Values = keymap[k]]
         IN  KeyValuesLoop(keymap, Tail(order), Append(objects, object), mutationCount + 1)

Outer(c, table, objects) ==
    [NewRequestPayload EXCEPT !.DefaultDb = c.database, !.DefaultTable = table,
                              !.Objects = objects]

\* What a facade operation has built when it calls Execute.
Built(p, r) == [payload |-> p, req |-> r]

GetMultiBuild(c, table, keymap, order) ==
    LET outer == Outer(c, table, KeysLoop(keymap, order, <<>>, 0).Objects)
        urlData == encodeUri(MarshalPayload(outer))
    IN  Built(outer, newRequest(S_GET, S_dataMulti \o <<"/">> \o urlData,
                                VALTYPE_DATA, RESPONSETYPE_FETCH_MULTI))

PutMultiBuild(c, table, keymap, order) ==
    LET loop == KeyValuesLoop(keymap, order, <<>>, 0)
        outer == Outer(c, table, loop.Objects)
        r == newRequest(S_PUT, S_data, VALTYPE_DATA, RESPONSETYPE_MUTATION)
    IN  Built(outer, [r EXCEPT !.body = MarshalPayload(outer),
                               !.mutations = loop.mutationCount])

DeleteMultiBuild(c, table, keymap, order) ==
    LET loop == KeysLoop(keymap, order, <<>>, 0)
        outer == Outer(c, table, loop.Objects)
        r == newRequest(S_DELETE, S_data, VALTYPE_DATA, RESPONSETYPE_MUTATION)
    IN  Built(outer, [r EXCEPT !.body = MarshalPayload(outer),
                               !.mutations = loop.mutationCount])

GetMultiCountBuild(c, table, keymap, order) ==
    LET outer == Outer(c, table, KeysLoop(keymap, order, <<>>, 0).Objects)
        urlData == encodeUri(MarshalPayload(outer))
    IN  Built(outer, newRequest(S_GET, S_countMulti \o <<"/">> \o urlData,
                                VALTYPE_COUNT, RESPONSETYPE_FETCH_MULTI))

PutMultiCountBuild(c, table, keymap, order) ==
    LET loop == KeyValuesLoop(keymap, order, <<>>, 0)
        outer == Outer(c, table, loop.Objects)
        r == newRequest(S_PUT, S_count, VALTYPE_COUNT, RESPONSETYPE_MUTATION)
    IN  Built(outer, [r EXCEPT !.body = MarshalPayload(outer),
                               !.mutations = loop.mutationCount])

\* DeleteMultiCount sent to the data endpoint.
DeleteMultiCountBuild_DataEndpoint(c, table, keymap, order) ==
    LET loop == KeysLoop(keymap, order, <<>>, 0)
        outer == Outer(c, table, loop.Objects)
        r == newRequest(S_DELETE, S_data, VALTYPE_COUNT, RESPONSETYPE_MUTATION)
    IN  Built(outer, [r EXCEPT !.body = MarshalPayload(outer),
                               !.mutations = loop.mutationCount])

DeleteMultiCountBuild(c, table, keymap, order) ==
    LET loop == KeysLoop(keymap, order, <<>>, 0)
        outer == Outer(c, table, loop.Objects)
        r == newRequest(S_DELETE, S_count, VALTYPE_COUNT, RESPONSETYPE_MUTATION)
    IN  Built(outer, [r EXCEPT !.body = MarshalPayload(outer),
                               !.mutations = loop.mutationCount])

\* fmt.Sprintf("<prefix>/%s/%s/%s/%s", database, table, key, subkey)
SinglePath(prefix, c, table, key, subkey) ==
    prefix \o <<"/">> \o c.database \o <<"/">> \o table \o <<"/">> \o key
    \o <<"/">> \o subkey

GetSingleBuild(c, table, key, subkey) ==
    Built(Nil, newRequest(S_GET, SinglePath(S_data, c, table, key, subkey),
                          VALTYPE_DATA, RESPONSETYPE_FETCH_SINGLE))

\* The one-object envelope of PutSingle and IncrementSingleCount.
SingleOuter(c, table, key, subkey, value) ==
    Outer(c, table,
          <<[NewPayloadObjectsKeyValues EXCEPT
               !.Key = key, !.Values = [sk \in {subkey} |-> value]]>>)

PutSingleBuild(c, table, key, subkey, value) ==
    LET r == newRequest(S_PUT, S_data, VALTYPE_DATA, RESPONSETYPE_MUTATION)
        outer == SingleOuter(c, table, key, subkey, StrVal(value))
    IN  Built(outer, [r EXCEPT !.body = MarshalPayload(outer), !.mutations = 1])

GetSingleCountBuild(c, table, key, subkey) ==
    Built(Nil, newRequest(S_GET, SinglePath(S_count, c, table, key, subkey),
                          VALTYPE_COUNT, RESPONSETYPE_FETCH_SINGLE))

IncrementSingleCountBuild(c, table, key, subkey, value) ==
    LET r == newRequest(S_PUT, S_count, VALTYPE_COUNT, RESPONSETYPE_MUTATION)
        outer == SingleOuter(c, table, key, subkey, IntVal(value))
    IN  Built(outer, [r EXCEPT !.body = MarshalPayload(outer), !.mutations = 1])

---------------------------------------------------------------------------
(* Decoded JSON, as encoding/json hands it to the program *)

\* A response body: the empty string, a text that is not JSON, or the text
\* of a JSON value.
EmptyBody == [kind |-> "empty"]
MalformedBody == [kind |-> "malformed"]
JsonBody(v) == [kind |-> "json", val |-> v]

\* JSON values. A number is held in halves (3 is 6 halves, 2.5 is 5), so
\* that numbers with a fraction exist; an object is a function from its
\* keys to values. Names in a response are plain strings.
JNull == [t |-> "null"]
JStr(x) == [t |-> "string", s |-> x]
JNum(halves) == [t |-> "float64", halves |-> halves]
JBool(b) == [t |-> "bool", b |-> b]
JArr == [t |-> "array"]
JObj(m) == [t |-> "object", m |-> m]

\* m[k] on a map[string]interface{}: nil for a missing key, for a JSON null
\* and on a nil map. A nil map and a nil interface{} are both JNull.
Index(v, k) == IF v.t = "object" /\ k \in DOMAIN v.m THEN v.m[k] ELSE JNull

IsNil(v) == v = JNull

\* A Go string held by a Response: a text, or what fmt writes for a value
\* the verb does not fit ("%!s(float64=1)").
GoStr(x) == [str |-> x]
BadVerb(verb, v) == [badverb |-> verb, arg |-> v]

\* fmt.Sprintf("%s", v)
FmtS(v) == IF v.t = "string" THEN GoStr(v.s) ELSE BadVerb("%s", v)

\* strconv.ParseFloat(fmt.Sprintf("%f", v), 64) succeeds exactly for a
\* float64: every other type is written as "%!f(...)" or in brackets.
ParsesAsFloat(v) == v.t = "float64"

\* int64(f) for the float64 of a JSON number: truncation toward zero.
Int64Of(v) ==
    IF v.halves >= 0 THEN v.halves \div 2 ELSE 0 - ((0 - v.halves) \div 2)

\* json.Unmarshal([]byte(body), &data) with data a map[string]interface{}:
\* an error for a text that is not JSON (the empty text is not) and for a
\* JSON value that is neither an object nor null; null leaves the map nil.
Unmarshal(body) ==
    IF body.kind \in {"malformed", "empty"}
    THEN [ok |-> FALSE, err |-> [error |-> "json.SyntaxError"], data |-> JNull]
    ELSE IF body.val.t \in {"object", "null"}
    THEN [ok |-> TRUE, err |-> Nil, data |-> body.val]
    ELSE [ok |-> FALSE, err |-> [error |-> "json.UnmarshalTypeError"], data |-> JNull]

---------------------------------------------------------------------------
(* Response decoder, src/client.go:542-640 *)

\* The Response NewResponse allocates: RawBody and Request set, every other
\* field at its zero value.
ZeroResponse(body) ==
    [Success       |-> FALSE,
     ResponseType  |-> 0,
     RawBody       |-> body,
     Error         |-> Nil,
     StrValue      |-> GoStr(""),
     IntValue      |-> 0,
     MutationCount |-> 0,
     Data          |-> JNull]

\* How parse ends: it returns, or a failed type assertion panics.
Returns(r) == [crashed |-> FALSE, resp |-> r]
Panics(r) == [crashed |-> TRUE, resp |-> r]

\* fmt.Sprintf("%s", data["status"]) == "OK"
StatusOK(data) == FmtS(Index(data, "status")) = GoStr("OK")

\* x.(map[string]interface{}) succeeds
IsMap(v) == v.t = "object"

\* The values one entry of dataMap holds.
EntryValues(kv) == {kv.m[sk] : sk \in DOMAIN kv.m}

\* The values of all entries of dataMap.
AllValues(dataMap) == UNION {EntryValues(dataMap.m[k]) : k \in DOMAIN dataMap.m}

\* SingleDataValues with StrValue never assigned.
SingleDataValues_Unset(r, dataMap) == {r}

\* FETCH_SINGLE, DATA: every entry of dataMap is visited in the order of the
\* range statement and the first value of each sets StrValue, so the value
\* of any pair may be the one left.
SingleDataValues(r, dataMap) ==
    LET vals == AllValues(dataMap)
    IN  IF vals = {} THEN {r} ELSE {[r EXCEPT !.StrValue = FmtS(v)] : v \in vals}

\* FETCH_SINGLE, COUNT: in each entry the first value that parses as a
\* number sets IntValue.
SingleCountValues(r, dataMap) ==
    LET vals == {v \in AllValues(dataMap) : ParsesAsFloat(v)}
    IN  IF vals = {} THEN {r} ELSE {[r EXCEPT !.IntValue = Int64Of(v)] : v \in vals}

\* The mutation count read from data.mutations, -1 when there is none.
ObservedMutations(dataMap) ==
    IF ~IsNil(Index(dataMap, "mutations")) /\ ParsesAsFloat(Index(dataMap, "mutations"))
    THEN Int64Of(Index(dataMap, "mutations"))
    ELSE 0 - 1

\* "Does mutation count match the success?"
CountCheck(success, observed, expected) ==
    IF success /\ observed # expected THEN FALSE ELSE success

\* "Mutation parsing for success": acknowledged, else executed, asserted to
\* be a bool.
AckOverride(r, dataMap) ==
    IF ~IsNil(Index(dataMap, "acknowledged"))
    THEN IF Index(dataMap, "acknowledged").t = "bool"
         THEN Returns([r EXCEPT !.Success = Index(dataMap, "acknowledged").b])
         ELSE Panics(r)
    ELSE IF ~IsNil(Index(dataMap, "executed"))
    THEN IF Index(dataMap, "executed").t = "bool"
         THEN Returns([r EXCEPT !.Success = Index(dataMap, "executed").b])
         ELSE Panics(r)
    ELSE Returns(r)

\* ParseMutation with the override applied before the count check.
ParseMutation_CountCheckLast(q, r, dataMap) ==
    LET o == AckOverride([r EXCEPT !.MutationCount = ObservedMutations(dataMap)], dataMap)
    IN  IF o.crashed THEN o
        ELSE Returns([o.resp EXCEPT
                        !.Success = CountCheck(@, o.resp.MutationCount, q.mutations)])

\* The MUTATION branch of parse.
ParseMutation(q, r, dataMap) ==
    LET r1 == [r EXCEPT !.MutationCount = ObservedMutations(dataMap)]
        r2 == [r1 EXCEPT !.Success = CountCheck(r1.Success, r1.MutationCount, q.mutations)]
    IN  AckOverride(r2, dataMap)

\* The "Value extraction" block of parse, entered when data["data"] is not
\* nil: the ways it can end.
ExtractValues(q, r, data) ==
    IF ~IsMap(Index(data, "data")) THEN {Panics(r)}
    ELSE LET dataMap == Index(data, "data")
         IN  IF q.responseType = RESPONSETYPE_FETCH_SINGLE
             THEN IF \E k \in DOMAIN dataMap.m : ~IsMap(dataMap.m[k])
                  THEN {Panics(r)}
                  ELSE IF q.valType = VALTYPE_DATA
                  THEN {Returns(x) : x \in SingleDataValues(r, dataMap)}
                  ELSE IF q.valType = VALTYPE_COUNT
                  THEN {Returns(x) : x \in SingleCountValues(r, dataMap)}
                  ELSE {Returns(r)}
             ELSE IF q.responseType = RESPONSETYPE_MUTATION
             THEN {ParseMutation(q, r, dataMap)}
             ELSE {Returns(r)}

\* JsonFailed with the error not recorded.
JsonFailed_ErrorDropped(r, jsonErr) == [r EXCEPT !.Success = FALSE]

\* The Response of a body that json.Unmarshal rejects.
JsonFailed(r, jsonErr) == [r EXCEPT !.Success = FALSE, !.Error = jsonErr]

\* parse from "// Json" on.
ParseJson(q, r) ==
    LET u == Unmarshal(r.RawBody)
    IN  IF ~u.ok
        THEN {Returns(JsonFailed(r, u.err))}
        ELSE LET r1 == [r EXCEPT !.Success = IF StatusOK(u.data) THEN TRUE ELSE @,
                                 !.Data = u.data]
             IN  IF IsNil(Index(u.data, "data")) THEN {Returns(r1)}
                 ELSE ExtractValues(q, r1, u.data)

\* parse without its early return on an empty body.
parse_NoEmptyCheck(q, r) == ParseJson(q, r)

\* Response.parse on the Response of request q: every way it can end.
parse(q, r) ==
    IF r.RawBody.kind = "empty" THEN {Returns(r)} ELSE ParseJson(q, r)

\* NewResponse(req, bodyStr): the Response it returns, or a panic.
NewResponse(q, bodyStr) == parse(q, ZeroResponse(bodyStr))

---------------------------------------------------------------------------
(* Typed accessors, src/client.go:642-705 *)

\* log.Fatal ends the process; otherwise the accessor returns a value.
Fatal == [fatal |-> TRUE, value |-> Nil]
Value(v) == [fatal |-> FALSE, value |-> v]

DataValue(q, r) ==
    IF q.responseType # RESPONSETYPE_FETCH_SINGLE \/ q.valType # VALTYPE_DATA
    THEN Fatal
    ELSE Value(r.StrValue)

\* A value that does not parse as a number counts as 0.
CountOf(v) == IF ParsesAsFloat(v) THEN Int64Of(v) ELSE 0

\* BulkMap with the inner loop left out: every key holds an empty map.
BulkMap_NoInner(r, valType) ==
    LET d == Index(r.Data, "data")
    IN  IF ~IsMap(d) THEN <<>> ELSE [k \in DOMAIN d.m |-> <<>>]

\* The two-level map both bulk getters build; valType selects the conversion
\* applied to each value (fmt.Sprintf for data, the count conversion for counts).
BulkMap(r, valType) ==
    LET d == Index(r.Data, "data")
    IN  IF ~IsMap(d) THEN <<>>
        ELSE [k \in DOMAIN d.m |->
                IF IsMap(d.m[k])
                THEN [sk \in DOMAIN d.m[k].m |->
                        IF valType = VALTYPE_DATA
                        THEN FmtS(d.m[k].m[sk])
                        ELSE CountOf(d.m[k].m[sk])]
                ELSE <<>>]

DataMapValues(q, r) ==
    IF q.responseType # RESPONSETYPE_FETCH_MULTI \/ q.valType # VALTYPE_DATA
    THEN Fatal
    ELSE Value([map |-> BulkMap(r, VALTYPE_DATA)])

DataCountValues(q, r) ==
    IF q.responseType # RESPONSETYPE_FETCH_MULTI \/ q.valType # VALTYPE_COUNT
    THEN Fatal
    ELSE Value([map |-> BulkMap(r, VALTYPE_COUNT)])

CountValue(q, r) ==
    IF q.valType # VALTYPE_COUNT
    THEN Fatal
    ELSE Value([int |-> r.IntValue])

Accessors == {"DataValue", "CountValue", "DataMapValues", "DataCountValues"}

CallOf(name, q, r) ==
    CASE name = "DataValue" -> DataValue(q, r)
      [] name = "CountValue" -> CountValue(q, r)
      [] name = "DataMapValues" -> DataMapValues(q, r)
      [] name = "DataCountValues" -> DataCountValues(q, r)

---------------------------------------------------------------------------
(* Request.Execute, src/client.go:401-463 *)

\* Whether http.NewRequest can parse the URL: net/url rejects a control
\* character.
URLParses(u) == \A i \in 1..Len(u) : CharCode(u[i]) >= 32

\* fmt.Sprintf("%s/%d/%d", region, applicationId, customerId)
RouteHeader(c) ==
    c.region \o <<"/">> \o FmtD(c.applicationId) \o <<"/">> \o FmtD(c.customerId)

\* HttpRequest with the two numbers of the route header exchanged.
HttpRequest_CustomerFirst(c, r) ==
    [method |-> r.method,
     url    |-> c.endpoint \o getUrl(c, r),
     body   |-> r.body,
     header |-> [h \in {"X-Auth", "X-Veritas-Route"}
                       \cup (IF Len(r.body) > 0 THEN {"Content-Type"} ELSE {}) |->
                   CASE h = "X-Auth" -> [sig |-> signRequest(c, r)]
                     [] h = "X-Veritas-Route" ->
                          [text |-> c.region \o <<"/">> \o FmtD(c.customerId)
                                    \o <<"/">> \o FmtD(c.applicationId)]
                     [] h = "Content-Type" -> [text |-> "application/json"]]]

\* The http.Request Execute hands to client.Do; a header that is not set is
\* not in the header map.
HttpRequest(c, r) ==
    [method |-> r.method,
     url    |-> c.endpoint \o getUrl(c, r),
     body   |-> r.body,
     header |-> [h \in {"X-Auth", "X-Veritas-Route"}
                       \cup (IF Len(r.body) > 0 THEN {"Content-Type"} ELSE {}) |->
                   CASE h = "X-Auth" -> [sig |-> signRequest(c, r)]
                     [] h = "X-Veritas-Route" -> [text |-> RouteHeader(c)]
                     [] h = "Content-Type" -> [text |-> "application/json"]]]

\* What the call has handed back to its caller.
NoReturn == [kind |-> "none", res |-> Nil, err |-> Nil]
Returned(res, err) == [kind |-> "returned", res |-> res, err |-> err]
Panicked(why) == [kind |-> "panic", res |-> Nil, err |-> [error |-> why]]

NoAccess == [name |-> "none", fatal |-> FALSE, value |-> Nil]

---------------------------------------------------------------------------
(* Inputs *)

NewClientArgs ==
    {<<1, 1, <<"t", "e", "s", "t">>>>, <<7, 3, <<"k", "e", "y">>>>}

Databases == {<<"d", "b">>}
Versions == {<<"v", "2">>}
Regions == {<<"e", "u">>}
Endpoints == {<<"h", "t", "t", "p", ":", "/", "/", "h">>, <<"\t">>}
\* The two ends of the valid range and the level just outside each.
LogLevels == {LOG_ERROR - 1, LOG_ERROR, LOG_TRACE, LOG_TRACE + 1}

Tables == {<<"t">>}
KeyNames == <<(<<"a">>), <<"b", "/", "c">>, <<"d", " ", "e">>, <<"f", ":", "g">>>>
Keys == {KeyNames[i] : i \in 1..(IF MaxKeys < Len(KeyNames) THEN MaxKeys ELSE Len(KeyNames))}
SubKeys == {<<"s">>, <<"u">>}
StrValues == {<<"x">>}
IntValues == {1, 0 - 2}

\* The values a bulk operation can hold under one key.
SubKeyLists == {<<(<<"s">>)>>, <<(<<"u">>), <<"s">>>>}
ValueMaps ==
    {[sk \in {<<"s">>} |-> StrVal(<<"x">>)],
     [sk \in SubKeys |-> StrVal(IF sk = <<"s">> THEN <<"x">> ELSE <<"y", ",">>)]}
CountMaps ==
    {[sk \in {<<"s">>} |-> IntVal(1)],
     [sk \in SubKeys |-> IntVal(IF sk = <<"s">> THEN 0 - 2 ELSE 10)]}

\* The value a key holds in the keymaps drawn: of the two values of V, the key
\* at an odd place of KeyNames holds the one with one subkey, the key at an
\* even place the one with two.
ValueOfKey(V, k) ==
    LET i == CHOOSE j \in 1..Len(KeyNames) : KeyNames[j] = k
    IN  CHOOSE v \in V : Cardinality(DOMAIN v) = 2 - (i % 2)

\* The keymaps over each set of keys, with values drawn from V.
Keymaps(V) == {[k \in K |-> ValueOfKey(V, k)] : K \in SUBSET Keys}

\* The orders in which a range statement can visit the keys of a map.
Orders(keymap) ==
    LET K == DOMAIN keymap
    IN  {o \in [1..Cardinality(K) -> K] : \A i, j \in 1..Cardinality(K) : o[i] = o[j] => i = j}

\* Bodies a server can answer with.
ReplyBodies ==
    {EmptyBody, MalformedBody,
     JsonBody(JObj([k \in {"status"} |-> JStr("OK")])),
     JsonBody(JObj([k \in {"status", "data"} |->
                      IF k = "status" THEN JStr("OK") ELSE JStr("x")])),
     JsonBody(JObj([k \in {"status", "data"} |->
                      IF k = "status" THEN JStr("OK")
                      ELSE JObj([f \in {"mutations"} |-> JNum(2)])])),
     JsonBody(JObj([k \in {"status", "data"} |->
                      IF k = "status" THEN JStr("OK")
                      ELSE JObj([a \in {"a"} |-> JObj([sk \in {"s"} |-> JStr("x")])])]))}

\* The JSON objects with keys among fields, the value of key k drawn from
\* vals[k].
ObjectsOver(fields, vals) ==
    LET all == UNION {vals[k] : k \in fields}
    IN  UNION {{f \in [D -> all] : \A k \in D : f[k] \in vals[k]} : D \in SUBSET fields}

\* What a server can put under data.mutations: a number (a count, a count
\* with a fraction, a negative one), null, or a value of another type.
MutationsValues ==
    {JNull, JStr("2"), JBool(TRUE)} \cup {JNum(h) : h \in (0 - 2)..(2 * MaxKeys + 3)}

\* What it can put under data.acknowledged and data.executed.
FlagValues == {JNull, JBool(TRUE), JBool(FALSE), JStr("true")}

MutationFieldValues(k) == IF k = "mutations" THEN MutationsValues ELSE FlagValues

\* What it can put under a key of data in answer to a fetch.
EntryObjects ==
    {JStr("x"),
     JObj(<<>>),
     JObj([sk \in {"s"} |-> JStr("x")]),
     JObj([sk \in {"s"} |-> JStr("y")]),
     JObj([sk \in {"s"} |-> JNum(6)]),
     JObj([sk \in {"s", "u"} |-> IF sk = "s" THEN JStr("x") ELSE JNum(5)])}

EntryValuesOf(k) == EntryObjects

\* The values of the data field.
DataValues ==
    {JNull, JStr("x"), JNum(4), JBool(TRUE), JArr}
    \cup {JObj(m) : m \in ObjectsOver({"mutations", "acknowledged", "executed"},
                                      [k \in {"mutations", "acknowledged", "executed"} |->
                                          MutationFieldValues(k)])}
    \cup {JObj(m) : m \in ObjectsOver({"a", "b"}, [k \in {"a", "b"} |-> EntryValuesOf(k)])}
    \cup {JObj([k \in {"mutations", "a"} |->
                  IF k = "mutations" THEN JNum(4) ELSE JObj([sk \in {"s"} |-> JStr("x")])])}

StatusValues == {JStr("OK"), JStr("ERR"), JNum(2)}

TopFieldValues(k) == IF k = "status" THEN StatusValues ELSE DataValues

\* The answers to a fetch: status "OK" and a data object of entries.
FetchBodies ==
    {JsonBody(JObj([f \in {"status", "data"} |->
                      IF f = "status" THEN JStr("OK") ELSE JObj(m)])) :
        m \in ObjectsOver({"a", "b"}, [k \in {"a", "b"} |-> EntryValuesOf(k)])}

\* The bodies the decoder is run on.
DecodeBodies ==
    {EmptyBody, MalformedBody, JsonBody(JNull), JsonBody(JArr), JsonBody(JStr("OK"))}
    \cup {JsonBody(JObj(m)) : m \in ObjectsOver({"status", "data"}, [k \in {"status", "data"} |-> TopFieldValues(k)])}

\* A keymap of n keys, each holding v, and the order that visits them as
\* KeyNames lists them.
SampleKeymap(n, v) == [k \in {KeyNames[i] : i \in 1..n} |-> v]
SampleOrder(n) == [i \in 1..n |-> KeyNames[i]]

\* One call of every facade operation on client c, the bulk ones with every
\* number of keys.
SampleCalls(c) ==
    LET t == <<"t">>
        k == <<"a">>
        sk == <<"s">>
        l == <<(<<"s">>)>>
        vm == [x \in {<<"s">>} |-> StrVal(<<"x">>)]
        cm == [x \in {<<"s">>} |-> IntVal(1)]
        N == 0..MaxKeys
    IN  {[name |-> "GetSingle", built |-> GetSingleBuild(c, t, k, sk)],
         [name |-> "PutSingle", built |-> PutSingleBuild(c, t, k, sk, <<"x">>)],
         [name |-> "GetSingleCount", built |-> GetSingleCountBuild(c, t, k, sk)],
         [name |-> "IncrementSingleCount",
          built |-> IncrementSingleCountBuild(c, t, k, sk, 1)]}
        \cup {[name |-> "GetMulti",
               built |-> GetMultiBuild(c, t, SampleKeymap(n, l), SampleOrder(n))] : n \in N}
        \cup {[name |-> "PutMulti",
               built |-> PutMultiBuild(c, t, SampleKeymap(n, vm), SampleOrder(n))] : n \in N}
        \cup {[name |-> "DeleteMulti",
               built |-> DeleteMultiBuild(c, t, SampleKeymap(n, l), SampleOrder(n))] : n \in N}
        \cup {[name |-> "GetMultiCount",
               built |-> GetMultiCountBuild(c, t, SampleKeymap(n, l), SampleOrder(n))] : n \in N}
        \cup {[name |-> "PutMultiCount",
               built |-> PutMultiCountBuild(c, t, SampleKeymap(n, cm), SampleOrder(n))] : n \in N}
        \cup {[name |-> "DeleteMultiCount",
               built |-> DeleteMultiCountBuild(c, t, SampleKeymap(n, l), SampleOrder(n))] : n \in N}

---------------------------------------------------------------------------
(* Actions *)

\* No call is in progress.
Idle == pc = "idle"

\* Configuration is set between calls; what a setter leaves alone.
SetterFrame ==
    /\ Idle
    /\ UNCHANGED <<pc, op, payload, req, wire, sends, rawBody, ret, acc>>
    /\ UNCHANGED <<raceVars, encVars>>

Select(db) ==
    /\ nset < MaxSetterCalls
    /\ client' = [client EXCEPT !.database = db]
    /\ nset' = nset + 1
    /\ UNCHANGED setRet
    /\ SetterFrame

SetVersion(version) ==
    /\ nset < MaxSetterCalls
    /\ client' = [client EXCEPT !.version = version]
    /\ nset' = nset + 1
    /\ UNCHANGED setRet
    /\ SetterFrame

SetRegion(region) ==
    /\ nset < MaxSetterCalls
    /\ client' = [client EXCEPT !.region = region]
    /\ nset' = nset + 1
    /\ UNCHANGED setRet
    /\ SetterFrame

SetEndpoint(endpoint) ==
    /\ nset < MaxSetterCalls
    /\ client' = [client EXCEPT !.endpoint = endpoint]
    /\ nset' = nset + 1
    /\ UNCHANGED setRet
    /\ SetterFrame

\* SetLogLevel with the range check left out.
SetLogLevel_NoRangeCheck(l) ==
    /\ nset < MaxSetterCalls
    /\ client' = [client EXCEPT !.logLevel = l]
    /\ setRet' = [arg |-> l, before |-> client.logLevel, ok |-> TRUE]
    /\ nset' = nset + 1
    /\ SetterFrame

SetLogLevel(l) ==
    /\ nset < MaxSetterCalls
    /\ client' = IF l < LOG_ERROR \/ l > LOG_TRACE THEN client
                 ELSE [client EXCEPT !.logLevel = l]
    /\ setRet' = [arg |-> l, before |-> client.logLevel,
                  ok |-> ~(l < LOG_ERROR \/ l > LOG_TRACE)]
    /\ nset' = nset + 1
    /\ SetterFrame

\* A facade operation up to its call of Execute.
Begin(call, built) ==
    /\ Idle
    /\ op' = call
    /\ payload' = built.payload
    /\ req' = built.req
    /\ pc' = "built"
    /\ UNCHANGED <<client, wire, sends, rawBody, ret, acc, nset>>
    /\ UNCHANGED <<raceVars, encVars, setRet>>

GetMulti ==
    \E table \in Tables, keymap \in Keymaps(SubKeyLists) : \E order \in Orders(keymap) :
        Begin([name |-> "GetMulti", table |-> table, keymap |-> keymap],
              GetMultiBuild(client, table, keymap, order))

PutMulti ==
    \E table \in Tables, keymap \in Keymaps(ValueMaps) : \E order \in Orders(keymap) :
        Begin([name |-> "PutMulti", table |-> table, keymap |-> keymap],
              PutMultiBuild(client, table, keymap, order))

DeleteMulti ==
    \E table \in Tables, keymap \in Keymaps(SubKeyLists) : \E order \in Orders(keymap) :
        Begin([name |-> "DeleteMulti", table |-> table, keymap |-> keymap],
              DeleteMultiBuild(client, table, keymap, order))

GetMultiCount ==
    \E table \in Tables, keymap \in Keymaps(SubKeyLists) : \E order \in Orders(keymap) :
        Begin([name |-> "GetMultiCount", table |-> table, keymap |-> keymap],
              GetMultiCountBuild(client, table, keymap, order))

PutMultiCount ==
    \E table \in Tables, keymap \in Keymaps(CountMaps) : \E order \in Orders(keymap) :
        Begin([name |-> "PutMultiCount", table |-> table, keymap |-> keymap],
              PutMultiCountBuild(client, table, keymap, order))

DeleteMultiCount ==
    \E table \in Tables, keymap \in Keymaps(SubKeyLists) : \E order \in Orders(keymap) :
        Begin([name |-> "DeleteMultiCount", table |-> table, keymap |-> keymap],
              DeleteMultiCountBuild(client, table, keymap, order))

GetSingle ==
    \E table \in Tables, key \in Keys, subkey \in SubKeys :
        Begin([name |-> "GetSingle", table |-> table, key |-> key, subkey |-> subkey],
              GetSingleBuild(client, table, key, subkey))

PutSingle ==
    \E table \in Tables, key \in Keys, subkey \in SubKeys, value \in StrValues :
        Begin([name |-> "PutSingle", table |-> table, key |-> key, subkey |-> subkey,
               value |-> StrVal(value)],
              PutSingleBuild(client, table, key, subkey, value))

GetSingleCount ==
    \E table \in Tables, key \in Keys, subkey \in SubKeys :
        Begin([name |-> "GetSingleCount", table |-> table, key |-> key, subkey |-> subkey],
              GetSingleCountBuild(client, table, key, subkey))

IncrementSingleCount ==
    \E table \in Tables, key \in Keys, subkey \in SubKeys, value \in IntValues :
        Begin([name |-> "IncrementSingleCount", table |-> table, key |-> key,
               subkey |-> subkey, value |-> IntVal(value)],
              IncrementSingleCountBuild(client, table, key, subkey, value))

\* ExecuteSend with client.Do run again after a transport failure.
ExecuteSend_Retries ==
    /\ pc = "built"
    /\ IF ~URLParses(client.endpoint \o getUrl(client, req))
       THEN /\ pc' = "returned"
            /\ ret' = Returned(Nil, [error |-> "reqErr"])
            /\ UNCHANGED <<wire, sends, rawBody>>
       ELSE /\ wire' = HttpRequest(client, req)
            /\ sends' = sends + 1
            /\ \/ /\ pc' = "built"
                  /\ UNCHANGED <<ret, rawBody>>
               \/ /\ pc' = "returned"
                  /\ ret' = Returned(Nil, [error |-> "bodyErr"])
                  /\ UNCHANGED rawBody
               \/ /\ \E body \in ReplyBodies : rawBody' = body
                  /\ pc' = "read"
                  /\ UNCHANGED ret
    /\ UNCHANGED <<client, op, payload, req, acc, nset>>
    /\ UNCHANGED <<raceVars, encVars, setRet>>

\* Execute up to the body read from the response: http.NewRequest may fail,
\* client.Do may fail (panic(err)), ioutil.ReadAll may fail.
ExecuteSend ==
    /\ pc = "built"
    /\ IF ~URLParses(client.endpoint \o getUrl(client, req))
       THEN /\ pc' = "returned"
            /\ ret' = Returned(Nil, [error |-> "reqErr"])
            /\ UNCHANGED <<wire, sends, rawBody>>
       ELSE /\ wire' = HttpRequest(client, req)
            /\ sends' = sends + 1
            /\ \/ /\ pc' = "panicked"
                  /\ ret' = Panicked("transport")
                  /\ UNCHANGED rawBody
               \/ /\ pc' = "returned"
                  /\ ret' = Returned(Nil, [error |-> "bodyErr"])
                  /\ UNCHANGED rawBody
               \/ /\ \E body \in ReplyBodies : rawBody' = body
                  /\ pc' = "read"
                  /\ UNCHANGED ret
    /\ UNCHANGED <<client, op, payload, req, acc, nset>>
    /\ UNCHANGED <<raceVars, encVars, setRet>>

\* The rest of Execute: NewResponse and the return.
ExecuteDecode ==
    /\ pc = "read"
    /\ \E o \in NewResponse(req, rawBody) :
         IF o.crashed
         THEN pc' = "panicked" /\ ret' = Panicked("type assertion")
         ELSE pc' = "returned" /\ ret' = Returned(o.resp, Nil)
    /\ UNCHANGED <<client, op, payload, req, wire, sends, rawBody, acc, nset>>
    /\ UNCHANGED <<raceVars, encVars, setRet>>

\* The caller reads the returned Response through a typed accessor.
CallAccessor ==
    /\ pc = "returned"
    /\ ret.res # Nil
    /\ \E name \in Accessors :
         LET a == CallOf(name, req, ret.res)
         IN  /\ acc' = [name |-> name, fatal |-> a.fatal, value |-> a.value]
             /\ pc' = IF a.fatal THEN "exited" ELSE pc
    /\ UNCHANGED <<client, op, payload, req, wire, sends, rawBody, ret, nset>>
    /\ UNCHANGED <<raceVars, encVars, setRet>>

\* The caller is done with the call.
Finish ==
    /\ pc = "returned"
    /\ pc' = "idle"
    /\ op' = Nil /\ payload' = Nil /\ req' = Nil /\ wire' = Nil
    /\ sends' = 0 /\ rawBody' = Nil /\ ret' = NoReturn /\ acc' = NoAccess
    /\ UNCHANGED <<client, nset>>
    /\ UNCHANGED <<raceVars, encVars, setRet>>

---------------------------------------------------------------------------
(* encodeUri called on its own *)

\* The characters of the strings encoded: the two kept literal, the space,
\* the slash, the characters of an escape sequence, the plus sign, and
\* characters of a JSON text.
EncodeAlphabet == {",", ":", " ", "/", "%", "2", "C", "+", "a", "\"", "{"}

EncodeStrings == UNION {[1..n -> EncodeAlphabet] : n \in 0..MaxStrLen}

NoEncode == str = <<>> /\ encoded = Nil

CallEncodeUri ==
    /\ encoded = Nil
    /\ encoded' = [text |-> encodeUri(str)]
    /\ UNCHANGED <<client, pc, op, payload, req, wire, sends, rawBody, ret, acc, nset>>
    /\ UNCHANGED <<raceVars, str, setRet>>

---------------------------------------------------------------------------
(* Concurrent callers *)

\* Two callers share one client.
Callers == {"A", "B"}

\* The call of a caller that has not called yet. alone is the Request the
\* operation builds, kept by value; the Addr fields are addresses in heap
\* (0: none).
IdleCall ==
    [pc |-> "idle", name |-> "", alone |-> Nil,
     payloadAddr |-> 0, reqAddr |-> 0, resAddr |-> 0,
     url |-> <<>>, wire |-> Nil, rawBody |-> Nil, ret |-> NoReturn]

NoRace == heap = <<>> /\ calls = [c \in Callers |-> IdleCall] /\ writing = Nil

\* Alloc with one address handed out again and again.
Alloc_Reused(h) == 1

\* The address of a newly allocated value (&Request{...}, &RequestPayload{},
\* &Response{...}): one that holds nothing yet.
Alloc(h) == Len(h) + 1

\* The heap with v stored at address a.
Store(h, a, v) == IF a > Len(h) THEN Append(h, v) ELSE [h EXCEPT ![a] = v]

\* The versions another caller sets while calls are in flight: one as long
\* as the default and a longer one.
RaceVersions == Versions \cup {<<"v", "1", "0">>}

\* A string read while it is being written without synchronisation can have
\* the bytes of one value and the length of the other; bytes past the end
\* of the shorter value are unknown and written "?".
Torn(bytes, length) ==
    IF Len(length) <= Len(bytes)
    THEN SubSeq(bytes, 1, Len(length))
    ELSE bytes \o [i \in 1..(Len(length) - Len(bytes)) |-> "?"]

\* What a read of r.client.version can return.
VersionReads ==
    IF writing = Nil THEN {client.version}
    ELSE {client.version, writing.version,
          Torn(client.version, writing.version), Torn(writing.version, client.version)}

\* The client as a call sees it when its read of the version returns v.
ClientRead(v) == [client EXCEPT !.version = v]

\* The operations the concurrent callers run: a fetch by path, a mutation
\* with a body and a bulk fetch of one key.
RaceCalls(c) ==
    {call \in SampleCalls(c) :
        \/ call.name \in {"GetSingle", "PutSingle"}
        \/ call.name = "GetMulti" /\ Len(call.built.payload.Objects) = 1}

\* The replies the concurrent callers get: those of ReplyBodies that carry
\* a data field.
RaceBodies == {b \in ReplyBodies : b.kind = "json" /\ Index(b.val, "data") # JNull}

RaceFrame ==
    /\ UNCHANGED <<pc, op, payload, req, wire, sends, rawBody, ret, acc>>
    /\ UNCHANGED <<encVars, setRet>>

\* SetVersion called by another caller: the store begins ...
RaceSetVersionStart(version) ==
    /\ writing = Nil
    /\ nset < MaxSetterCalls
    /\ writing' = [version |-> version]
    /\ nset' = nset + 1
    /\ UNCHANGED <<client, heap, calls>>
    /\ RaceFrame

\* ... and is complete.
RaceSetVersionEnd ==
    /\ writing # Nil
    /\ client' = [client EXCEPT !.version = writing.version]
    /\ writing' = Nil
    /\ UNCHANGED <<heap, calls, nset>>
    /\ RaceFrame

\* A facade operation of caller c up to its call of Execute: the envelope
\* and the Request are allocated.
RaceBegin(c) ==
    /\ calls[c].pc = "idle"
    /\ \E call \in RaceCalls(client) :
         LET pa == IF call.built.payload = Nil THEN 0 ELSE Alloc(heap)
             h1 == IF pa = 0 THEN heap ELSE Store(heap, pa, call.built.payload)
             ra == Alloc(h1)
         IN  /\ heap' = Store(h1, ra, call.built.req)
             /\ calls' = [calls EXCEPT ![c] =
                            [IdleCall EXCEPT !.pc = "built", !.name = call.name,
                                             !.alone = call.built.req,
                                             !.payloadAddr = pa, !.reqAddr = ra]]
    /\ UNCHANGED <<client, writing, nset>>
    /\ RaceFrame

\* Execute: fullUrl is formatted (the version is read) and http.NewRequest
\* parses it.
RaceUrl(c) ==
    /\ calls[c].pc = "built"
    /\ \E v \in VersionReads :
         LET u == client.endpoint \o getUrl(ClientRead(v), heap[calls[c].reqAddr])
         IN  calls' = [calls EXCEPT ![c] =
                         IF URLParses(u)
                         THEN [@ EXCEPT !.pc = "url", !.url = u]
                         ELSE [@ EXCEPT !.pc = "returned",
                                        !.ret = Returned(Nil, [error |-> "reqErr"])]]
    /\ UNCHANGED <<client, heap, writing, nset>>
    /\ RaceFrame

\* Execute: the request is signed (the version is read again) and the
\* headers are set.
RaceSign(c) ==
    /\ calls[c].pc = "url"
    /\ \E v \in VersionReads :
         calls' = [calls EXCEPT ![c] =
                     [@ EXCEPT !.pc = "signed",
                               !.wire = [HttpRequest(ClientRead(v), heap[calls[c].reqAddr])
                                           EXCEPT !.url = calls[c].url]]]
    /\ UNCHANGED <<client, heap, writing, nset>>
    /\ RaceFrame

\* Execute: client.Do and ioutil.ReadAll.
RaceDo(c) ==
    /\ calls[c].pc = "signed"
    /\ \/ calls' = [calls EXCEPT ![c] =
                      [@ EXCEPT !.pc = "panicked", !.ret = Panicked("transport")]]
       \/ calls' = [calls EXCEPT ![c] =
                      [@ EXCEPT !.pc = "returned",
                                !.ret = Returned(Nil, [error |-> "bodyErr"])]]
       \/ \E body \in RaceBodies :
            calls' = [calls EXCEPT ![c] = [@ EXCEPT !.pc = "read", !.rawBody = body]]
    /\ UNCHANGED <<client, heap, writing, nset>>
    /\ RaceFrame

\* Execute: NewResponse allocates the Response, parse fills it, and the
\* pointer is returned.
RaceDecode(c) ==
    /\ calls[c].pc = "read"
    /\ \E o \in NewResponse(heap[calls[c].reqAddr], calls[c].rawBody) :
         LET a == Alloc(heap)
         IN  /\ heap' = Store(heap, a, o.resp)
             /\ calls' = [calls EXCEPT ![c] =
                            IF o.crashed
                            THEN [@ EXCEPT !.pc = "panicked", !.resAddr = a,
                                           !.ret = Panicked("type assertion")]
                            ELSE [@ EXCEPT !.pc = "returned", !.resAddr = a,
                                           !.ret = Returned([addr |-> a], Nil)]]
    /\ UNCHANGED <<client, writing, nset>>
    /\ RaceFrame

---------------------------------------------------------------------------
(* Specifications *)

Init ==
    /\ client \in {NewClient(a[1], a[2], a[3]) : a \in NewClientArgs}
    /\ pc = "idle"
    /\ op = Nil /\ payload = Nil /\ req = Nil /\ wire = Nil
    /\ sends = 0 /\ rawBody = Nil /\ ret = NoReturn /\ acc = NoAccess
    /\ nset = 0 /\ setRet = Nil
    /\ NoRace /\ NoEncode

\* One caller: configuration is set between calls, and each call runs
\* from the facade to its return.
Next ==
    \/ \E db \in Databases : Select(db)
    \/ \E version \in Versions : SetVersion(version)
    \/ \E region \in Regions : SetRegion(region)
    \/ \E endpoint \in Endpoints : SetEndpoint(endpoint)
    \/ \E l \in LogLevels : SetLogLevel(l)
    \/ GetSingle
    \/ PutSingle
    \/ GetSingleCount
    \/ IncrementSingleCount
    \/ GetMulti
    \/ PutMulti
    \/ DeleteMulti
    \/ GetMultiCount
    \/ PutMultiCount
    \/ DeleteMultiCount
    \/ ExecuteSend
    \/ ExecuteDecode
    \/ Finish

Spec == Init /\ [][Next]_vars

\* The state of a call whose response body has just been read: the request
\* is one a facade operation built and sent, the body is any of bodies.
InitRead(bodies) ==
    /\ client = NewClient(1, 1, <<"t", "e", "s", "t">>)
    /\ pc = "read"
    /\ \E call \in SampleCalls(client) :
         /\ op = [name |-> call.name]
         /\ payload = call.built.payload
         /\ req = call.built.req
         /\ wire = HttpRequest(client, call.built.req)
    /\ sends = 1
    /\ rawBody \in bodies
    /\ ret = NoReturn /\ acc = NoAccess
    /\ nset = 0 /\ setRet = Nil
    /\ NoRace /\ NoEncode

\* The decoder alone, on every body of DecodeBodies.
InitDecode == InitRead(DecodeBodies)

NextDecode == ExecuteDecode

SpecDecode == InitDecode /\ [][NextDecode]_vars

\* The decoder and the typed accessors called on what it returns.
InitAccess == InitRead(ReplyBodies \cup FetchBodies)

NextAccess ==
    \/ ExecuteDecode
    \/ CallAccessor

SpecAccess == InitAccess /\ [][NextAccess]_vars

\* encodeUri alone, on every string of EncodeStrings.
InitEncode ==
    /\ client = NewClient(1, 1, <<"t", "e", "s", "t">>)
    /\ pc = "idle"
    /\ op = Nil /\ payload = Nil /\ req = Nil /\ wire = Nil
    /\ sends = 0 /\ rawBody = Nil /\ ret = NoReturn /\ acc = NoAccess
    /\ nset = 0 /\ setRet = Nil
    /\ NoRace
    /\ str \in EncodeStrings
    /\ encoded = Nil

NextEncode == CallEncodeUri

SpecEncode == InitEncode /\ [][NextEncode]_vars

\* Two callers running one operation each on a shared client that nobody
\* configures meanwhile.
InitPair ==
    /\ client \in {NewClient(a[1], a[2], a[3]) : a \in NewClientArgs}
    /\ pc = "idle"
    /\ op = Nil /\ payload = Nil /\ req = Nil /\ wire = Nil
    /\ sends = 0 /\ rawBody = Nil /\ ret = NoReturn /\ acc = NoAccess
    /\ nset = 0 /\ setRet = Nil
    /\ NoRace /\ NoEncode

NextPair ==
    \/ \E c \in Callers : RaceBegin(c)
    \/ \E c \in Callers : RaceUrl(c)
    \/ \E c \in Callers : RaceSign(c)
    \/ \E c \in Callers : RaceDo(c)
    \/ \E c \in Callers : RaceDecode(c)

SpecPair == InitPair /\ [][NextPair]_vars

\* One caller running an operation while another caller calls SetVersion on
\* the same client.
InitRace ==
    /\ client = NewClient(7, 3, <<"k", "e", "y">>)
    /\ pc = "idle"
    /\ op = Nil /\ payload = Nil /\ req = Nil /\ wire = Nil
    /\ sends = 0 /\ rawBody = Nil /\ ret = NoReturn /\ acc = NoAccess
    /\ nset = 0 /\ setRet = Nil
    /\ NoRace /\ NoEncode

NextRace ==
    \/ \E version \in RaceVersions : RaceSetVersionStart(version)
    \/ RaceSetVersionEnd
    \/ RaceBegin("A")
    \/ RaceUrl("A")
    \/ RaceSign("A")
    \/ RaceDo("A")
    \/ RaceDecode("A")

SpecRace == InitRace /\ [][NextRace]_vars

---------------------------------------------------------------------------
(* Properties of the response decoder *)

\* The call has ended with a Response handed to the caller.
Decoded == pc = "returned" /\ ret.res # Nil

\* The call has got past the decoder, one way or the other.
DecodeEnded == pc \in {"returned", "panicked"} /\ rawBody # Nil

\* The top-level JSON value of the body read, and its data field.
BodyTop == IF rawBody # Nil /\ rawBody.kind = "json" THEN rawBody.val ELSE JNull
BodyData == Index(BodyTop, "data")
BodyStatusOK == Index(BodyTop, "status") = JStr("OK")

\* The data object carries the field k (not null).
Carries(k) == Index(BodyData, k) # JNull

IsMutation == req # Nil /\ req.responseType = RESPONSETYPE_MUTATION

\* The mutation count data.mutations holds is n.
MutationsIs(n) ==
    /\ Index(BodyData, "mutations").t = "float64"
    /\ Int64Of(Index(BodyData, "mutations")) = n

\* C1: mutation-count enforcement. For every response decoded for a MUTATION
\* request whose body has status "OK" and carries neither data.acknowledged
\* nor data.executed, Success is true only if the count read from
\* data.mutations equals the request's expected count; when there is no such
\* count (data.mutations or the whole data object absent) Success is false.
\* Stated for the requests that expect at least one mutation.
C1_MutationCountEnforced ==
    (Decoded /\ IsMutation /\ req.mutations >= 1 /\ BodyStatusOK
        /\ ~Carries("acknowledged") /\ ~Carries("executed"))
    => (ret.res.Success <=> MutationsIs(req.mutations))

AccessorMatches(name, q) ==
    CASE name = "DataValue" ->
           q.responseType = RESPONSETYPE_FETCH_SINGLE /\ q.valType = VALTYPE_DATA
      [] name = "CountValue" ->
           q.responseType = RESPONSETYPE_FETCH_SINGLE /\ q.valType = VALTYPE_COUNT
      [] name = "DataMapValues" ->
           q.responseType = RESPONSETYPE_FETCH_MULTI /\ q.valType = VALTYPE_DATA
      [] name = "DataCountValues" ->
           q.responseType = RESPONSETYPE_FETCH_MULTI /\ q.valType = VALTYPE_COUNT

\* C4: a typed accessor returns a value only when both the response shape and
\* the value kind of the request are the accessor's; every other call ends
\* in the fatal outcome.
C4_AccessorsRejectMismatch ==
    acc.name # "none" => (acc.fatal <=> ~AccessorMatches(acc.name, req))

\* C5: decoding an empty body returns normally, with Success false and no
\* other field populated.
C5_EmptyBody ==
    (DecodeEnded /\ rawBody = EmptyBody)
    => /\ pc = "returned"
       /\ ret = Returned([Success |-> FALSE, ResponseType |-> 0, RawBody |-> EmptyBody,
                          Error |-> Nil, StrValue |-> GoStr(""), IntValue |-> 0,
                          MutationCount |-> 0, Data |-> JNull],
                         Nil)

\* C5 witness: an empty body decoded for a mutation.
C5_Witness == Decoded /\ rawBody = EmptyBody /\ IsMutation /\ req.mutations > 0

\* C6: decoding a body that is not JSON returns a Response with Success
\* false and Error set to the parse error, the other fields at their zero
\* values.
C6_MalformedJson ==
    (DecodeEnded /\ rawBody = MalformedBody)
    => /\ pc = "returned"
       /\ ret.err = Nil
       /\ ret.res.Error = [error |-> "json.SyntaxError"]
       /\ ret.res = [ZeroResponse(MalformedBody) EXCEPT !.Error = ret.res.Error]

\* C6 witness: a malformed body decoded for a single fetch.
C6_Witness ==
    /\ Decoded /\ rawBody = MalformedBody
    /\ req.responseType = RESPONSETYPE_FETCH_SINGLE
    /\ ret.res.Error # Nil

\* C7: for every body that is JSON with an object at top level, NewResponse
\* returns a Response to the caller: the decoder never panics.
C7_DecoderNeverPanics ==
    (DecodeEnded /\ BodyTop.t = "object") => pc = "returned" /\ ret.res # Nil

---------------------------------------------------------------------------
(* Properties of the facade, the request builder and the signer *)

\* The call has ended, by a return or by a panic.
CallEnded == pc \in {"returned", "panicked"}

\* C3: every facade operation ends by returning either a Response with a nil
\* error or a nil Response with an error; a transport failure is returned as
\* the error of the operation.
C3_ReturnsResponseOrError ==
    CallEnded
    => /\ ret.kind = "returned"
       /\ \/ ret.res # Nil /\ ret.err = Nil
          \/ ret.res = Nil /\ ret.err # Nil

\* The rows of the mapping table: method, path, value kind, response shape,
\* and where the envelope goes ("none": no envelope and the single-key path,
\* "path": encoded after the path, "body": the request body).
C8_Row(name) ==
    CASE name = "GetSingle" ->
           [method |-> S_GET, path |-> S_data, valType |-> VALTYPE_DATA,
            shape |-> RESPONSETYPE_FETCH_SINGLE, envelope |-> "none"]
      [] name = "GetSingleCount" ->
           [method |-> S_GET, path |-> S_count, valType |-> VALTYPE_COUNT,
            shape |-> RESPONSETYPE_FETCH_SINGLE, envelope |-> "none"]
      [] name \in {"PutSingle", "PutMulti"} ->
           [method |-> S_PUT, path |-> S_data, valType |-> VALTYPE_DATA,
            shape |-> RESPONSETYPE_MUTATION, envelope |-> "body"]
      [] name \in {"IncrementSingleCount", "PutMultiCount"} ->
           [method |-> S_PUT, path |-> S_count, valType |-> VALTYPE_COUNT,
            shape |-> RESPONSETYPE_MUTATION, envelope |-> "body"]
      [] name = "DeleteMulti" ->
           [method |-> S_DELETE, path |-> S_data, valType |-> VALTYPE_DATA,
            shape |-> RESPONSETYPE_MUTATION, envelope |-> "body"]
      [] name = "DeleteMultiCount" ->
           [method |-> S_DELETE, path |-> S_count, valType |-> VALTYPE_COUNT,
            shape |-> RESPONSETYPE_MUTATION, envelope |-> "body"]
      [] name = "GetMulti" ->
           [method |-> S_GET, path |-> S_dataMulti, valType |-> VALTYPE_DATA,
            shape |-> RESPONSETYPE_FETCH_MULTI, envelope |-> "path"]
      [] name = "GetMultiCount" ->
           [method |-> S_GET, path |-> S_countMulti, valType |-> VALTYPE_COUNT,
            shape |-> RESPONSETYPE_FETCH_MULTI, envelope |-> "path"]

SingleOps == {"GetSingle", "GetSingleCount", "PutSingle", "IncrementSingleCount"}
BulkMutations == {"PutMulti", "DeleteMulti", "PutMultiCount", "DeleteMultiCount"}

\* The envelope describes the arguments of the call: the selected database,
\* the table, and one object per key holding that key's values.
C8_EnvelopeOfCall ==
    /\ payload.DefaultDb = client.database
    /\ payload.DefaultTable = op.table
    /\ IF op.name \in SingleOps
       THEN /\ Len(payload.Objects) = 1
            /\ payload.Objects[1].Key = op.key
            /\ payload.Objects[1].Values = [sk \in {op.subkey} |-> op.value]
       ELSE /\ {payload.Objects[i].Key : i \in 1..Len(payload.Objects)} = DOMAIN op.keymap
            /\ \A i \in 1..Len(payload.Objects) :
                 payload.Objects[i].Values = op.keymap[payload.Objects[i].Key]

\* C8: every facade operation builds exactly the request of its table row.
\* Method, value kind and response shape are compared in every state that
\* holds a request; path, body and envelope are compared in the state where
\* the operation has built the request and hands it to Execute.
C8_RequestMapping ==
    req # Nil
    => LET row == C8_Row(op.name)
           json == MarshalPayload(payload)
       IN  /\ req.method = row.method
           /\ req.valType = row.valType
           /\ req.responseType = row.shape
           /\ (pc = "built" /\ row.envelope = "none")
                => /\ payload = Nil
                   /\ req.body = <<>>
                   /\ req.endpoint = row.path \o <<"/">> \o client.database \o <<"/">>
                                     \o op.table \o <<"/">> \o op.key \o <<"/">> \o op.subkey
           /\ (pc = "built" /\ row.envelope = "path")
                => /\ C8_EnvelopeOfCall
                   /\ req.body = <<>>
                   /\ req.endpoint = row.path \o <<"/">> \o encodeUri(json)
           /\ (pc = "built" /\ row.envelope = "body")
                => /\ C8_EnvelopeOfCall
                   /\ req.body = json
                   /\ req.endpoint = row.path

\* C8 witness: DeleteMultiCount called with two keys has built its request.
C8_Witness ==
    /\ pc = "built"
    /\ op.name = "DeleteMultiCount"
    /\ Cardinality(DOMAIN op.keymap) = 2
    /\ req.endpoint = S_count

\* C9: the expected mutation count of a bulk mutation is the number of keys
\* of the keymap, which is the number of objects of the envelope, whatever
\* the number of subkeys; for PutSingle and IncrementSingleCount it is 1.
C9_ExpectedMutations ==
    req # Nil
    => /\ op.name \in BulkMutations
            => /\ req.mutations = Cardinality(DOMAIN op.keymap)
               /\ req.mutations = Len(payload.Objects)
       /\ op.name \in {"PutSingle", "IncrementSingleCount"} => req.mutations = 1

\* C9 witness: PutMulti of one key with two subkeys expects one mutation.
C9_Witness ==
    /\ pc = "built"
    /\ op.name = "PutMulti"
    /\ Cardinality(DOMAIN op.keymap) = 1
    /\ \A k \in DOMAIN op.keymap : Cardinality(DOMAIN op.keymap[k]) = 2
    /\ req.mutations = 1

\* The digest of the method, the path, the secret, the decimal length of the
\* body and the hex fingerprint of the body, in this order.
C10_Digest(method, path, secret, body) ==
    Sha512Hex(method \o path \o secret \o FmtD(Len(body)), Sha1Hex(body))

---------------------------------------------------------------------------
(* Properties of the request sent *)

\* C11: every request sent carries X-Auth equal to the signature of the
\* request, X-Veritas-Route equal to region/applicationId/customerId of the
\* client in this order, and Content-Type: application/json exactly when its
\* body is not empty.
C11_Headers ==
    wire # Nil
    => /\ wire.header["X-Auth"] = [sig |-> signRequest(client, req)]
       /\ wire.header["X-Veritas-Route"] =
            [text |-> client.region \o <<"/">> \o FmtD(client.applicationId)
                      \o <<"/">> \o FmtD(client.customerId)]
       /\ ("Content-Type" \in DOMAIN wire.header) <=> (Len(wire.body) > 0)
       /\ "Content-Type" \in DOMAIN wire.header
            => wire.header["Content-Type"] = [text |-> "application/json"]
       /\ wire.body = req.body

\* C11 witness: a request with a body was sent by a client whose application
\* and customer numbers differ.
C11_Witness ==
    /\ wire # Nil
    /\ sends = 1
    /\ Len(wire.body) > 0
    /\ client.applicationId # client.customerId

\* C13: no retries. Whatever the outcome of a call, client.Do has run at most
\* once in it.
C13_NoRetries == sends <= 1

\* C13 witness: a call has ended on a transport failure after one send.
C13_Witness ==
    /\ pc = "panicked"
    /\ ret = Panicked("transport")
    /\ sends = 1

\* C15: whenever a facade operation has serialized an envelope, its objects
\* list is not empty and its default_db and default_table are not empty.
C15_EnvelopeNonEmpty ==
    (pc = "built" /\ payload # Nil)
    => /\ Len(payload.Objects) > 0
       /\ payload.DefaultDb # <<>>
       /\ payload.DefaultTable # <<>>

---------------------------------------------------------------------------
(* Further properties of the response decoder *)

\* C18: mutation-count sentinel. For every MUTATION response whose body is a
\* JSON object, MutationCount is the number data.mutations holds when it is
\* a number, and -1 in every other case, the case of no data object included.
C18_MutationSentinel ==
    (Decoded /\ IsMutation /\ BodyTop.t = "object")
    => ret.res.MutationCount =
         IF Index(BodyData, "mutations").t = "float64"
         THEN Int64Of(Index(BodyData, "mutations"))
         ELSE 0 - 1

\* C19: Success is never upgraded past the status field. For every decoded
\* Response, Success is true only if the status of the body is "OK".
C19_SuccessImpliesStatusOK ==
    Decoded => (ret.res.Success => BodyStatusOK)

---------------------------------------------------------------------------
(* Properties of the fetch results *)

\* The body read is a JSON object whose data is absent, or an object of
\* objects.
C16_WellShaped ==
    /\ BodyTop.t = "object"
    /\ BodyData = JNull
       \/ /\ BodyData.t = "object"
          /\ \A k \in DOMAIN BodyData.m : BodyData.m[k].t = "object"

\* The values of the key/subkey pairs under data.
C16_PairValues ==
    IF BodyData = JNull THEN {}
    ELSE UNION {{BodyData.m[k].m[sk] : sk \in DOMAIN BodyData.m[k].m} : k \in DOMAIN BodyData.m}

\* C16: single data fetch. For every FETCH_SINGLE/DATA response whose data
\* holds string values, StrValue is the value of a key/subkey pair present
\* under data (so the value of the pair when there is exactly one), it stays
\* the empty string when data is absent or holds no pair, and DataValue
\* returns StrValue.
C16_SingleDataFetch ==
    (/\ Decoded
     /\ req.responseType = RESPONSETYPE_FETCH_SINGLE
     /\ req.valType = VALTYPE_DATA
     /\ C16_WellShaped
     /\ \A v \in C16_PairValues : v.t = "string")
    => /\ IF C16_PairValues = {}
          THEN ret.res.StrValue = [str |-> ""]
          ELSE \E v \in C16_PairValues : ret.res.StrValue = [str |-> v.s]
       /\ acc.name = "DataValue"
            => /\ ~acc.fatal
               /\ acc.value = ret.res.StrValue

\* C16 witness: DataValue has returned the value of one of two pairs that
\* hold different strings.
C16_Witness ==
    /\ Decoded
    /\ req.responseType = RESPONSETYPE_FETCH_SINGLE
    /\ req.valType = VALTYPE_DATA
    /\ C16_WellShaped
    /\ C16_PairValues = {JStr("x"), JStr("y")}
    /\ acc.name = "DataValue"
    /\ acc.value = [str |-> "y"]

\* The entry the bulk getter of value type vt holds for the JSON value v: the
\* string itself for data, the integer part of the number for counts.
C17_Converted(vt, v) ==
    IF vt = VALTYPE_DATA /\ v.t = "string" THEN [str |-> v.s]
    ELSE IF vt = VALTYPE_COUNT /\ v.t = "float64"
    THEN (IF v.halves >= 0 THEN v.halves \div 2 ELSE 0 - ((0 - v.halves) \div 2))
    ELSE IF vt = VALTYPE_COUNT THEN 0
    ELSE FmtS(v)

\* C17: bulk fetch. For every FETCH_MULTI response of valid JSON, the bulk
\* getter of the request's value type returns, without error, a two-level
\* map with exactly the keys found under data and, under each key, exactly
\* the subkeys found under it, each holding its value (a string for data,
\* the integer of a number for counts); with data absent the map is empty.
C17_BulkFetch ==
    (/\ Decoded
     /\ req.responseType = RESPONSETYPE_FETCH_MULTI
     /\ BodyTop.t = "object"
     /\ \/ acc.name = "DataMapValues" /\ req.valType = VALTYPE_DATA
        \/ acc.name = "DataCountValues" /\ req.valType = VALTYPE_COUNT)
    => /\ ~acc.fatal
       /\ ret.err = Nil
       /\ ret.res.Error = Nil
       /\ IF BodyData = JNull
          THEN acc.value.map = <<>>
          ELSE /\ DOMAIN acc.value.map = DOMAIN BodyData.m
               /\ \A k \in DOMAIN BodyData.m :
                    IF BodyData.m[k].t = "object"
                    THEN /\ DOMAIN acc.value.map[k] = DOMAIN BodyData.m[k].m
                         /\ \A sk \in DOMAIN BodyData.m[k].m :
                              acc.value.map[k][sk]
                                = C17_Converted(req.valType, BodyData.m[k].m[sk])
                    ELSE acc.value.map[k] = <<>>

\* C17 witness: DataCountValues has returned a map of two keys, one of them
\* with two subkeys.
C17_Witness ==
    /\ Decoded
    /\ req.responseType = RESPONSETYPE_FETCH_MULTI
    /\ acc.name = "DataCountValues"
    /\ ~acc.fatal
    /\ Cardinality(DOMAIN acc.value.map) = 2
    /\ \E k \in DOMAIN acc.value.map : Cardinality(DOMAIN acc.value.map[k]) = 2

---------------------------------------------------------------------------
(* Properties of encodeUri *)

\* What the encoding writes for one character: ',' and ':' themselves, '+'
\* for the space, %2F for the slash, and the query escape of every other
\* character.
C12_Image(c) ==
    CASE c \in {",", ":"} -> <<c>>
      [] c = " " -> <<"+">>
      [] c = "/" -> <<"%", "2", "F">>
      [] OTHER -> queryEscapeChar(c)

\* The value of a hexadecimal digit.
C12_HexValue(d) == (CHOOSE i \in 1..Len(HexDigits) : HexDigits[i] = d) - 1

\* Standard query-unescaping: '+' is a space, %XY is the character of code
\* XY, every other character is itself.
RECURSIVE C12_QueryUnescape(_)
C12_QueryUnescape(s) ==
    IF s = <<>> THEN <<>>
    ELSE IF Head(s) = "%" /\ Len(s) >= 3
    THEN <<Ascii[16 * C12_HexValue(s[2]) + C12_HexValue(s[3]) - 31]>>
         \o C12_QueryUnescape(SubSeq(s, 4, Len(s)))
    ELSE IF Head(s) = "+" THEN <<" ">> \o C12_QueryUnescape(Tail(s))
    ELSE <<Head(s)>> \o C12_QueryUnescape(Tail(s))

\* C12: URL-safe multi-key encoding. encodeUri writes every ',' and ':' of
\* its input as the character itself and every other character in its
\* query-escaped form, and query-unescaping the result gives the input back
\* (so the encoding is injective).
C12_EncodeUri ==
    encoded # Nil
    => /\ encoded.text = Concat([i \in 1..Len(str) |-> C12_Image(str[i])])
       /\ C12_QueryUnescape(encoded.text) = str

\* C12 witness: a string holding a comma, a colon and a slash was encoded.
C12_Witness ==
    /\ encoded # Nil
    /\ {",", ":", "/"} \subseteq {str[i] : i \in 1..Len(str)}
    /\ {",", ":", "%"} \subseteq {encoded.text[i] : i \in 1..Len(encoded.text)}

---------------------------------------------------------------------------
(* Properties of concurrent callers *)

\* The addresses of the values a call allocated.
C14_Owned(c) == {calls[c].payloadAddr, calls[c].reqAddr, calls[c].resAddr} \ {0}

\* C14: two operations that run concurrently on one client, with no setter
\* called while they run, do not interfere, however their steps interleave: each sends the request and
\* returns a Response it would send and return alone on the same reply, its
\* Request is the one it built, and no Request, envelope or Response is
\* shared between the two calls.
C14_Independent ==
    \A c \in Callers :
        /\ \A d \in Callers \ {c} : C14_Owned(c) \cap C14_Owned(d) = {}
        /\ calls[c].pc # "idle"
             => /\ heap[calls[c].reqAddr] = calls[c].alone
                /\ calls[c].wire # Nil
                     => calls[c].wire = HttpRequest(client, calls[c].alone)
                /\ (calls[c].pc = "returned" /\ calls[c].ret.res # Nil)
                     => \E o \in NewResponse(calls[c].alone, calls[c].rawBody) :
                          ~o.crashed /\ heap[calls[c].ret.res.addr] = o.resp
                /\ (calls[c].pc = "panicked" /\ calls[c].rawBody # Nil)
                     => \E o \in NewResponse(calls[c].alone, calls[c].rawBody) : o.crashed

\* C14 witness: two different operations have both returned a Response,
\* decoded from different replies.
C14_Witness ==
    /\ \A c \in Callers :
         /\ calls[c].pc = "returned"
         /\ calls[c].ret.res # Nil
    /\ calls["A"].name # calls["B"].name
    /\ calls["A"].rawBody # calls["B"].rawBody

\* C20: signed path equals sent path. In every request a call has prepared,
\* the path hashed into X-Auth is the path of the URL the request is sent
\* to, whatever SetVersion calls run while the operation is in flight.
C20_SignedPathIsSentPath ==
    \A c \in Callers :
        calls[c].wire # Nil
        => LET w == calls[c].wire
               path == SubSeq(w.url, Len(client.endpoint) + 1, Len(w.url))
           IN  w.header["X-Auth"].sig.sha512 =
                 w.method \o path \o client.secureToken \o FmtD(Len(w.body))

---------------------------------------------------------------------------
(* Properties of the configuration *)

=============================================================================
